---------------------------- MODULE Spec2Model ----------------------------
(***************************************************************************)
(* Model of the shapelet design-matrix builders of src/src/MatrixBuilder.cc *)
(* (namespace lsst::shapelet): the builder variants, the helpers they share *)
(* (EllipseHelper, GaussianHelper, ShapeletHelper) and the makeMatrixBuilder*)
(* factory overloads.                                                       *)
(*                                                                         *)
(* Numbers.  Coordinates, radii, determinants and mixing-matrix entries are *)
(* exact rationals <<n, d>>.  A matrix entry is a formal linear combination *)
(* of basis terms with rational coefficients (a "value"): the code's exp,   *)
(* its Hermite-function table entries, the entries of the convolution       *)
(* matrix and the constant FLUX_FACTOR are kept as symbols, so two entries  *)
(* are equal only when the code computed them from the same quantities.     *)
(* Floating-point rounding is not modelled.                                 *)
(*                                                                         *)
(* Undefined behaviour.  Eigen and ndarray check the sizes of their         *)
(* operands and the range of an index only by assertions; an operation that *)
(* violates them either aborts the call or goes on with indeterminate       *)
(* values.  The model computes, from the dimensions the code allocates,     *)
(* whether every operation of an apply call is well-formed, and otherwise   *)
(* ends the call with err = "Undefined" and either outcome.                 *)
(***************************************************************************)
EXTENDS Integers, Sequences, FiniteSets, TLC

\* ------------------------------------------------------------------ bounds

\* Longest sample sequence the caller passes.
MaxData == 2

\* Largest shapelet order the caller requests.
MaxOrder == 2

\* --------------------------------------------------------------- rationals

Abs(n) == IF n < 0 THEN -n ELSE n

RECURSIVE GCD(_, _)
GCD(a, b) == IF b = 0 THEN a ELSE GCD(b, a % b)

\* The rational n/d in lowest terms with a positive denominator (d # 0).
RNorm(n, d) ==
    LET g == GCD(Abs(n), Abs(d))
        s == IF d < 0 THEN -1 ELSE 1
    IN  <<(s * n) \div g, (s * d) \div g>>

R0 == <<0, 1>>
R1 == <<1, 1>>
RInt(n) == <<n, 1>>
RAdd(a, b) == RNorm(a[1] * b[2] + b[1] * a[2], a[2] * b[2])
RMul(a, b) == RNorm(a[1] * b[1], a[2] * b[2])
RNeg(a) == <<-a[1], a[2]>>
RDiv(a, b) == RNorm(a[1] * b[2], a[2] * b[1])

\* An indeterminate coordinate: memory that was never written.
RIndet == <<0, 0>>

\* ------------------------------------------------------- symbolic values

\* An entry of a Hermite table: the normalized Hermite function of degree
\* deg at coordinate at.  Degree 0 is the constant BASIS_NORMALIZATION, the
\* same at every coordinate.
HVal(deg, at) == <<deg, IF deg = 0 THEN R0 ELSE at>>

\* A table entry that was never written, or was computed from one.
HIndet == <<-1, RIndet>>

\* No Hermite factor, no exponential factor, no convolution-matrix factor.
NoH == <<-2, R0>>
NoE == <<RIndet, RIndet>>
NoCv == <<0, 0, -1, <<>>>>

\* The term with no symbolic factor: a plain number.
KOne == [e |-> NoE, hx |-> NoH, hy |-> NoH, cv |-> NoCv, ff |-> 0]

\* exp(-0.5 * (xt^2 + yt^2)) * hx * hy
KBasis(xt, yt, hx, hy) ==
    [e |-> <<xt, yt>>, hx |-> hx, hy |-> hy, cv |-> NoCv, ff |-> 0]

\* The value 0: the empty combination.
VZero == [k \in {} |-> R0]

\* The value c * k.
VTerm(c, k) == IF c = R0 THEN VZero ELSE [j \in {k} |-> c]

VNum(c) == VTerm(c, KOne)

VCoef(v, k) == IF k \in DOMAIN v THEN v[k] ELSE R0

VAdd(u, v) ==
    LET D == DOMAIN u \cup DOMAIN v
        s(k) == RAdd(VCoef(u, k), VCoef(v, k))
    IN  [k \in {j \in D : s(j) # R0} |-> s(k)]

VScale(c, v) == IF c = R0 THEN VZero ELSE [k \in DOMAIN v |-> RMul(c, v[k])]

\* v with every term multiplied by the symbol cv (v has no such factor yet).
VTimesCv(v, cv) ==
    LET D == {[k EXCEPT !.cv = cv] : k \in DOMAIN v}
    IN  [j \in D |-> v[[j EXCEPT !.cv = NoCv]]]

\* v divided by the symbol FLUX_FACTOR.
VOverFlux(v) ==
    LET D == {[k EXCEPT !.ff = @ - 1] : k \in DOMAIN v}
    IN  [j \in D |-> v[[j EXCEPT !.ff = @ + 1]]]

\* An indeterminate value.
KIndet == [e |-> NoE, hx |-> HIndet, hy |-> HIndet, cv |-> NoCv, ff |-> 0]
VIndet == VTerm(R1, KIndet)

\* ---------------------------------------------------------------- matrices

\* A rows x cols array of values; a[<<i, j>>] is row i, column j (from 1).
Cells(rows, cols) == (1..rows) \X (1..cols)

Mat(rows, cols, f(_, _)) ==
    [rows |-> rows, cols |-> cols,
     a |-> [p \in Cells(rows, cols) |-> f(p[1], p[2])]]

ConstMat(rows, cols, v) == Mat(rows, cols, LAMBDA i, j : v)

ZeroMat(rows, cols) == ConstMat(rows, cols, VZero)

\* The sum of a sequence of values.
RECURSIVE VSumSeq(_)
VSumSeq(s) ==
    IF s = <<>> THEN VZero
    ELSE VAdd(VSumSeq(SubSeq(s, 1, Len(s) - 1)), s[Len(s)])

\* lhs * rhs for a matrix of values and a matrix of rationals
\* (lhs.cols = Len(rhs) rows; rhs[k][j] is row k, column j).
MatTimesRat(lhs, rhs, cols) ==
    Mat(lhs.rows, cols,
        LAMBDA i, j : VSumSeq([k \in 1..lhs.cols |->
                                   VScale(rhs[k][j], lhs.a[<<i, k>>])]))

MatAdd(p, q) == Mat(p.rows, p.cols, LAMBDA i, j : VAdd(p.a[<<i, j>>], q.a[<<i, j>>]))

\* ----------------------------------------------------------- collaborators

\* Number of basis functions of a shapelet expansion of the given order.
computeSize(order) == ((order + 1) * (order + 2)) \div 2

\* PackedIndex: the pair (x, y) of degrees, its total order n = x + y and its
\* column index i.  A default-constructed PackedIndex is (0, 0) at column 0.
PackedFirst == [n |-> 0, x |-> 0, y |-> 0, i |-> 0]

\* PackedIndex::operator++ : the next pair of the same order, or the first
\* pair of the next order.
PackedNext(p) ==
    IF p.x = 0
        THEN [n |-> p.n + 1, x |-> p.n + 1, y |-> 0, i |-> p.i + 1]
        ELSE [n |-> p.n, x |-> p.x - 1, y |-> p.y + 1, i |-> p.i + 1]

\* An ellipse: second moments mxx, myy along the axes (the core) and a
\* center.  The zero-size ellipse is the delta function.
Ell(mxx, myy, cx, cy) == [mxx |-> mxx, myy |-> myy, cx |-> cx, cy |-> cy]

DeltaEllipse == Ell(0, 0, 0, 0)

IsSquare(n) == \E r \in 0..n : r * r = n

ISqrt(n) == CHOOSE r \in 0..n : r * r = n

\* The ellipses whose grid transform is rational (and exists).
HasGridTransform(e) ==
    /\ e.mxx > 0 /\ e.myy > 0
    /\ IsSquare(e.mxx) /\ IsSquare(e.myy)

\* Ellipse::getGridTransform : the affine map to the frame in which the
\* ellipse is the unit circle.
GridTransform(e) ==
    LET a == ISqrt(e.mxx)
        b == ISqrt(e.myy)
    IN  [XX |-> RNorm(1, a), XY |-> R0, X |-> RNorm(-e.cx, a),
         YX |-> R0, YY |-> RNorm(1, b), Y |-> RNorm(-e.cy, b)]

\* AffineTransform::getLinear().computeDeterminant()
computeDeterminant(t) == RAdd(RMul(t.XX, t.YY), RNeg(RMul(t.XY, t.YX)))

\* Ellipse::convolve : moments and centers add.
Convolve(e, p) ==
    Ell(e.mxx + p.mxx, e.myy + p.myy, e.cx + p.cx, e.cy + p.cy)

\* A ShapeletFunction used as a PSF: its order, its ellipse and its first
\* coefficient.
Psf(order, ellipse, coef) == [order |-> order, ellipse |-> ellipse, coef |-> coef]

NoPsf == Psf(-1, DeltaEllipse, R0)

\* GaussHermiteConvolution(colOrder, psf): the row order is the order of the
\* convolved function.
GaussHermiteConvolution(colOrder, psf) ==
    [colOrder |-> colOrder, rowOrder |-> colOrder + psf.order, psf |-> psf]

NoConvolution == [colOrder |-> -1, rowOrder |-> -1, psf |-> NoPsf]

\* GaussHermiteConvolution::evaluate(ellipse): replaces the ellipse by the
\* convolved ellipse and returns the computeSize(rowOrder) x
\* computeSize(colOrder) matrix for the ellipse it was given; entry (r, c) is
\* the symbol <<r, c, parameters>>.
ConvolutionEllipse(conv, e) == Convolve(e, conv.psf.ellipse)

ConvolutionEntry(conv, e, r, c) ==
    <<r, c, conv.colOrder,
      <<conv.psf.order, conv.psf.coef[1], conv.psf.coef[2],
        conv.psf.ellipse.mxx, conv.psf.ellipse.myy,
        conv.psf.ellipse.cx, conv.psf.ellipse.cy,
        e.mxx, e.myy, e.cx, e.cy>>>>

\* A component of a MultiShapeletBasis: radius, order and the mixing matrix
\* (computeSize(order) rows, one column per basis function).
Component(radius, order, matrix) ==
    [radius |-> radius, order |-> order, matrix |-> matrix]

\* A MultiShapeletBasis: the number of basis functions (getSize) and the
\* components in iteration order.
Basis(size, comps) == [size |-> size, comps |-> comps]

NoBasis == Basis(0, <<>>)

\* ----------------------------------------------------------- EllipseHelper

\* EllipseHelper(workspace, dataSize): detFactor 1.0, xt and yt views of
\* dataSize entries each over memory that is not initialized.
EllipseHelper(dataSize) ==
    [detFactor |-> R1,
     xt |-> [i \in 1..dataSize |-> RIndet],
     yt |-> [i \in 1..dataSize |-> RIndet]]

NoEllipseHelper == EllipseHelper(0)

\* EllipseHelper::readEllipse
readEllipse(eh, x, y, ellipse) ==
    LET transform == GridTransform(ellipse)
    IN  [detFactor |-> computeDeterminant(transform),
         xt |-> [i \in 1..Len(x) |->
                   RAdd(RAdd(RMul(transform.XX, RInt(x[i])),
                             RMul(transform.XY, RInt(y[i]))), transform.X)],
         yt |-> [i \in 1..Len(x) |->
                   RAdd(RAdd(RMul(transform.YX, RInt(x[i])),
                             RMul(transform.YY, RInt(y[i]))), transform.Y)]]

\* EllipseHelper::scale
scale(eh, factor) ==
    [eh EXCEPT !.xt = [i \in DOMAIN @ |-> RDiv(@[i], factor)],
               !.yt = [i \in DOMAIN @ |-> RDiv(@[i], factor)]]

\* ---------------------------------------------------------- GaussianHelper

\* GaussianHelper::apply is well-formed when the column it adds into has one
\* entry per sample.
GaussianHelperDefined(eh, rows) == rows = Len(eh.xt)

\* GaussianHelper::apply : adds exp(-0.5 * (xt^2 + yt^2)) * detFactor * NORM
\* into the column; NORM is the degree-0 normalization of both axes.
GaussianHelperApply(eh, column) ==
    [i \in DOMAIN column |->
        VAdd(column[i],
             VTerm(eh.detFactor,
                   KBasis(eh.xt[i], eh.yt[i], HVal(0, R0), HVal(0, R0))))]

\* ---------------------------------------------------------- ShapeletHelper

\* ShapeletHelper(workspace, dataSize, order): _expWorkspace of dataSize
\* entries, and _xWorkspace and _yWorkspace, each a view of maxOrder + 1 rows
\* and dataSize columns (makeView(workspace, rows, cols)) over memory that is
\* not initialized.  A table is kept by column: table[c] is column c (from
\* 0), a sequence of one entry per row.
ExpIndet == [e |-> NoE, c |-> R0]

HermiteTable(rows, cols) == [c \in 0..(cols - 1) |-> [r \in 1..rows |-> HIndet]]

ShapeletHelper(dataSize, order) ==
    [maxOrder |-> order,
     rows |-> order + 1,
     cols |-> dataSize,
     expWorkspace |-> [i \in 1..dataSize |-> ExpIndet],
     xWorkspace |-> HermiteTable(order + 1, dataSize),
     yWorkspace |-> HermiteTable(order + 1, dataSize)]

NoShapeletHelper == ShapeletHelper(0, -1)

\* sqrt(2) * coord * h0, a degree-1 entry when h0 is the degree-0 entry.
HermiteStep1(coord, h0) ==
    IF h0 = HVal(0, R0) /\ coord # RIndet THEN HVal(1, coord) ELSE HIndet

\* sqrt(2/j) * coord * h1 - sqrt((j-1)/j) * h2, the degree-j entry when h1
\* and h2 are the entries of degrees j-1 and j-2 at the same coordinate.
HermiteStep(j, coord, h1, h2) ==
    IF h1 = HVal(j - 1, coord) /\ h2 = HVal(j - 2, coord) /\ coord # RIndet
        THEN HVal(j, coord) ELSE HIndet

\* The loop of _fillHermite1d from degree j to the order of the evaluation.
RECURSIVE fillHermiteFrom(_, _, _, _)
fillHermiteFrom(workspace, coord, j, order) ==
    IF j > order THEN workspace
    ELSE fillHermiteFrom(
             [workspace EXCEPT ![j] =
                 [r \in DOMAIN @ |->
                     HermiteStep(j, coord[r], workspace[j - 1][r],
                                 workspace[j - 2][r])]],
             coord, j + 1, order)

\* ShapeletHelper::_fillHermite1d for an evaluation of the given order;
\* workspace.cols() is the number of columns of the view.
fillHermite1d(workspace, cols, coord, order) ==
    LET w0 == IF cols > 0
                 THEN [workspace EXCEPT ![0] = [r \in DOMAIN @ |-> HVal(0, R0)]]
                 ELSE workspace
        w1 == IF cols > 1
                 THEN [w0 EXCEPT ![1] =
                          [r \in DOMAIN @ |-> HermiteStep1(coord[r], w0[0][r])]]
                 ELSE w0
    IN  fillHermiteFrom(w1, coord, 2, order)

\* A column loop that stops one order early: C10 tells the code from it.
ShapeletLoopGuardStrict(i, order) == i.n < order

\* The condition of the column loop of ShapeletHelper::apply.
ShapeletLoopGuard(i, order) == i.n <= order

\* The packed indices the column loop visits, from i on.
RECURSIVE ShapeletLoop(_, _)
ShapeletLoop(i, order) ==
    IF ShapeletLoopGuard(i, order)
        THEN <<i>> \o ShapeletLoop(PackedNext(i), order)
        ELSE <<>>

\* Every operation of ShapeletHelper::apply is well-formed: the columns the
\* evaluation touches exist in the tables and in the target view, and the
\* coefficient-wise products have operands of one length (a table column
\* has sh.rows entries, coord and _expWorkspace have one per sample).
ShapeletHelperDefined(sh, eh, rows, cols, order) ==
    LET dataSize == Len(eh.xt)
    IN  /\ rows = dataSize
        /\ computeSize(order) <= cols
        /\ order < sh.cols
        /\ sh.rows = dataSize

\* ShapeletHelper::apply for an evaluation of the given order (the order the
\* callers pass): the helper with its workspaces refilled.
ShapeletHelperFill(sh, eh, order) ==
    [sh EXCEPT
        !.expWorkspace = [i \in 1..Len(eh.xt) |->
                             [e |-> <<eh.xt[i], eh.yt[i]>>, c |-> eh.detFactor]],
        !.xWorkspace = fillHermite1d(@, sh.cols, eh.xt, order),
        !.yWorkspace = fillHermite1d(@, sh.cols, eh.yt, order)]

\* The term _expWorkspace * _xWorkspace.col(x) * _yWorkspace.col(y) at one
\* sample.
ShapeletTerm(sh, p, s) ==
    VTerm(sh.expWorkspace[s].c,
          KBasis(sh.expWorkspace[s].e[1], sh.expWorkspace[s].e[2],
                 sh.xWorkspace[p.x][s], sh.yWorkspace[p.y][s]))

\* The column loop of ShapeletHelper::apply over workspaces already filled:
\* it adds the term of every visited index into column getIndex() of the
\* view.
ShapeletAccumulate(filled, view, order) ==
    LET visited == ShapeletLoop(PackedFirst, order)
    IN  Mat(view.rows, view.cols,
            LAMBDA s, col :
                VAdd(view.a[<<s, col>>],
                     VSumSeq([k \in 1..Len(visited) |->
                                 IF visited[k].i + 1 = col
                                     THEN ShapeletTerm(filled, visited[k], s)
                                     ELSE VZero])))

\* ShapeletHelper::apply : the target view after the workspaces are filled
\* and the column loop has run.
ShapeletHelperApply(sh, eh, view, order) ==
    ShapeletAccumulate(ShapeletHelperFill(sh, eh, order), view, order)

\* ---------------------------------------------------------------- builders

\* A builder: the variant, the members of MatrixBuilder (_xy as its two
\* columns, _basisSize) and the members of the variants; a member a variant
\* does not have keeps its value in NoBuilder.
NoBuilder ==
    [variant |-> "None", x |-> <<>>, y |-> <<>>, basisSize |-> 0,
     order |-> 0, psfEllipse |-> DeltaEllipse, psfCoefficient |-> R0,
     convolution |-> NoConvolution, basis |-> NoBasis,
     ellipseHelper |-> NoEllipseHelper,
     shapeletHelper |-> NoShapeletHelper,
     workspace |-> ZeroMat(0, 0)]

\* MatrixBuilder::getDataSize : the rows of _xy.
getDataSize(b) == Len(b.x)

\* ndarray::allocate(rows, cols): memory that is not initialized.
allocate(rows, cols) == ConstMat(rows, cols, VIndet)

\* The result of a constructor or a factory: the exception thrown ("none"
\* for none), the builder returned, the members constructed after the base
\* class, in order, and the variant whose constructor ran ("none" when the
\* factory threw before constructing any).
Thrown(ctor, what) ==
    [err |-> what, b |-> NoBuilder, steps |-> <<>>, ctor |-> ctor]

Built(b, steps) ==
    [err |-> "none", b |-> b, steps |-> steps, ctor |-> b.variant]

\* A base constructor that compares nothing: C1 tells the code from it.
LengthMismatchNever(x, y) == FALSE

\* LSST_THROW_IF_NE in MatrixBuilder::MatrixBuilder.
LengthMismatch(x, y) == Len(x) # Len(y)

\* MatrixBuilder::MatrixBuilder
MatrixBuilder(variant, x, y, basisSize) ==
    [NoBuilder EXCEPT !.variant = variant, !.x = x, !.y = y,
                      !.basisSize = basisSize]

GaussianMatrixBuilder(x, y) ==
    IF LengthMismatch(x, y) THEN Thrown("Gaussian", "LengthError")
    ELSE Built([MatrixBuilder("Gaussian", x, y, 1) EXCEPT
                    !.ellipseHelper = EllipseHelper(Len(x))],
               <<"EllipseHelper">>)

ConvolvedGaussianMatrixBuilder(x, y, psfEllipse, psfCoefficient) ==
    IF LengthMismatch(x, y) THEN Thrown("ConvolvedGaussian", "LengthError")
    ELSE Built([MatrixBuilder("ConvolvedGaussian", x, y, 1) EXCEPT
                    !.ellipseHelper = EllipseHelper(Len(x)),
                    !.psfEllipse = psfEllipse,
                    !.psfCoefficient = psfCoefficient],
               <<"EllipseHelper">>)

ShapeletMatrixBuilder(x, y, order) ==
    IF LengthMismatch(x, y) THEN Thrown("Shapelet", "LengthError")
    ELSE Built([MatrixBuilder("Shapelet", x, y, computeSize(order)) EXCEPT
                    !.order = order,
                    !.ellipseHelper = EllipseHelper(Len(x)),
                    !.shapeletHelper = ShapeletHelper(Len(x), order)],
               <<"EllipseHelper", "ShapeletHelper">>)

ConvolvedShapeletMatrixBuilder(x, y, psf, order) ==
    LET convolution == GaussHermiteConvolution(order, psf)
    IN  IF LengthMismatch(x, y) THEN Thrown("ConvolvedShapelet", "LengthError")
        ELSE Built([MatrixBuilder("ConvolvedShapelet", x, y, computeSize(order))
                    EXCEPT
                        !.convolution = convolution,
                        !.workspace = allocate(Len(x), convolution.rowOrder),
                        !.ellipseHelper = EllipseHelper(Len(x)),
                        !.shapeletHelper =
                            ShapeletHelper(Len(x), convolution.rowOrder)],
                   <<"GaussHermiteConvolution", "allocate", "EllipseHelper",
                     "ShapeletHelper">>)

\* MultiShapeletMatrixBuilder0::_computeMaxOrder
RECURSIVE computeMaxOrderFrom(_, _, _)
computeMaxOrderFrom(comps, k, maxOrder) ==
    IF k > Len(comps) THEN maxOrder
    ELSE computeMaxOrderFrom(comps, k + 1,
             IF comps[k].order > maxOrder THEN comps[k].order ELSE maxOrder)

computeMaxOrder(basis) == computeMaxOrderFrom(basis.comps, 1, 0)

MultiShapeletMatrixBuilder0(x, y, basis) ==
    IF LengthMismatch(x, y) THEN Thrown("MultiShapelet", "LengthError")
    ELSE Built([MatrixBuilder("MultiShapelet", x, y, basis.size) EXCEPT
                    !.basis = basis,
                    !.ellipseHelper = EllipseHelper(Len(x)),
                    !.shapeletHelper =
                        ShapeletHelper(Len(x), computeMaxOrder(basis)),
                    !.workspace =
                        allocate(Len(x), computeSize(computeMaxOrder(basis)))],
               <<"EllipseHelper", "computeMaxOrder", "ShapeletHelper",
                 "allocate">>)

\* ConvolvedMultiShapeletMatrixBuilderComponent: the convolution of one
\* basis component with one PSF element, the component's radius and mixing
\* matrix.
ConvolvedComponent(component, psf) ==
    [convolution |-> GaussHermiteConvolution(component.order, psf),
     radius |-> component.radius,
     matrix |-> component.matrix]

getRowSize(component) == computeSize(component.convolution.rowOrder)

getColSize(component) == computeSize(component.convolution.colOrder)

\* The components the constructor pushes back: for each basis component in
\* turn, one for each PSF element in turn.
ConvolvedComponents(elements, basis) ==
    [k \in 1..(Len(basis.comps) * Len(elements)) |->
        ConvolvedComponent(basis.comps[((k - 1) \div Len(elements)) + 1],
                           elements[((k - 1) % Len(elements)) + 1])]

\* maxRowOrder and maxColOrder of the constructor: the largest order of any
\* component, 0 when there is none.
MaxOrderOf(orders) ==
    LET all == {0} \cup {orders[k] : k \in 1..Len(orders)}
    IN  CHOOSE n \in all : \A o \in all : o <= n

\* ConvolvedMultiShapeletMatrixBuilder::ConvolvedMultiShapeletMatrixBuilder.
\* No factory constructs this class.
ConvolvedMultiShapeletMatrixBuilder(x, y, elements, basis) ==
    LET components == ConvolvedComponents(elements, basis)
        maxRowOrder ==
            MaxOrderOf([k \in 1..Len(components) |->
                           components[k].convolution.rowOrder])
        maxColOrder ==
            MaxOrderOf([k \in 1..Len(components) |->
                           components[k].convolution.colOrder])
    IN  IF LengthMismatch(x, y)
            THEN Thrown("ConvolvedMultiShapelet", "LengthError")
        ELSE Built([components |-> components,
                    convolutionWorkspace |-> allocate(maxRowOrder, maxColOrder)]
                   @@ [MatrixBuilder("ConvolvedMultiShapelet", x, y,
                                     basis.size) EXCEPT
                           !.ellipseHelper = EllipseHelper(Len(x)),
                           !.shapeletHelper =
                               ShapeletHelper(Len(x), maxRowOrder),
                           !.workspace = allocate(Len(x), maxRowOrder)],
                   <<"EllipseHelper", "components", "ShapeletHelper",
                     "allocate", "allocate">>)

\* ----------------------------------------------------------------- factory

\* makeMatrixBuilder(x, y, order)
makeMatrixBuilder(x, y, order) ==
    IF order = 0
        THEN GaussianMatrixBuilder(x, y)
        ELSE ShapeletMatrixBuilder(x, y, order)

\* A factory that looks at the requested order only: C4 tells the code from
\* it.
PsfIsGaussianAnyPsf(psf, order) == order = 0

\* The condition under which makeMatrixBuilder(x, y, psf, order) builds the
\* convolved Gaussian.
PsfIsGaussian(psf, order) == order = 0 /\ psf.order = 0

\* makeMatrixBuilder(x, y, ShapeletFunction psf, order)
makeMatrixBuilderPsf(x, y, psf, order) ==
    IF PsfIsGaussian(psf, order)
        THEN ConvolvedGaussianMatrixBuilder(x, y, psf.ellipse, psf.coef)
        ELSE ConvolvedShapeletMatrixBuilder(x, y, psf, order)

\* A factory that uses the first element of any non-empty PSF: C5 tells the
\* code from it.
PsfIsSingleOrMore(elements) == Len(elements) >= 1

\* The condition under which makeMatrixBuilder(x, y, MultiShapeletFunction,
\* order) forwards to the single-PSF overload.
PsfIsSingle(elements) == Len(elements) = 1

\* makeMatrixBuilder(x, y, MultiShapeletFunction psf, order); elements is
\* psf.getElements().
makeMatrixBuilderMultiPsf(x, y, elements, order) ==
    IF PsfIsSingle(elements)
        THEN makeMatrixBuilderPsf(x, y, Head(elements), order)
        ELSE Thrown("none", "LogicError")

\* makeMatrixBuilder(x, y, MultiShapeletBasis basis)
makeMatrixBuilderBasis(x, y, basis) == MultiShapeletMatrixBuilder0(x, y, basis)

\* makeMatrixBuilder(x, y, MultiShapeletFunction psf, MultiShapeletBasis basis)
makeMatrixBuilderPsfBasis(x, y, elements, basis) == Thrown("none", "LogicError")

\* -------------------------------------------------------------------- apply

\* The outcomes of an apply call: the builder and the caller's matrix after
\* it, and err = "none", or err = "Undefined" for a call with an ill-formed
\* operation.
Done(b, out) == {[b |-> b, out |-> out, err |-> "none"]}

\* An ill-formed operation: the call aborts, leaving the caller's matrix as
\* it was at the fault, or goes on and leaves indeterminate values.
Undefined(b, atFault) ==
    {[b |-> b, out |-> atFault, err |-> "Undefined"],
     [b |-> b, out |-> ConstMat(atFault.rows, atFault.cols, VIndet),
      err |-> "Undefined"]}

\* output.deep() = 0.0
Zeroed(m) == ZeroMat(m.rows, m.cols)

\* m with column col (from 1) replaced by the sequence column.
WithColumn(m, col, column) ==
    Mat(m.rows, m.cols,
        LAMBDA i, j : IF j = col THEN column[i] ELSE m.a[<<i, j>>])

Column(m, col) == [i \in 1..m.rows |-> m.a[<<i, col>>]]

\* output.asEigen() *= _psfCoefficient / ShapeletFunction::FLUX_FACTOR
ScaleByPsf(coefficient, m) ==
    Mat(m.rows, m.cols,
        LAMBDA i, j : VOverFlux(VScale(coefficient, m.a[<<i, j>>])))

\* GaussianMatrixBuilder::apply
GaussianApply(b, output, ellipse) ==
    LET zero == Zeroed(output)
        eh == readEllipse(b.ellipseHelper, b.x, b.y, ellipse)
        nb == [b EXCEPT !.ellipseHelper = eh]
    IN  IF output.cols >= 1 /\ GaussianHelperDefined(eh, output.rows)
            THEN Done(nb, WithColumn(zero, 1,
                          GaussianHelperApply(eh, Column(zero, 1))))
            ELSE Undefined(nb, zero)

\* An apply that leaves out the scaling by _psfCoefficient / FLUX_FACTOR: C9
\* tells the code from it.
ConvolvedGaussianApplyUnscaled(b, output, ellipse) ==
    LET zero == Zeroed(output)
        eh == readEllipse(b.ellipseHelper, b.x, b.y,
                          Convolve(ellipse, b.psfEllipse))
        nb == [b EXCEPT !.ellipseHelper = eh]
    IN  IF output.cols >= 1 /\ GaussianHelperDefined(eh, output.rows)
            THEN Done(nb, WithColumn(zero, 1,
                              GaussianHelperApply(eh, Column(zero, 1))))
            ELSE Undefined(nb, zero)

\* ConvolvedGaussianMatrixBuilder::apply
ConvolvedGaussianApply(b, output, ellipse) ==
    LET zero == Zeroed(output)
        eh == readEllipse(b.ellipseHelper, b.x, b.y,
                          Convolve(ellipse, b.psfEllipse))
        nb == [b EXCEPT !.ellipseHelper = eh]
    IN  IF output.cols >= 1 /\ GaussianHelperDefined(eh, output.rows)
            THEN Done(nb, ScaleByPsf(b.psfCoefficient,
                          WithColumn(zero, 1,
                              GaussianHelperApply(eh, Column(zero, 1)))))
            ELSE Undefined(nb, zero)

\* ShapeletMatrixBuilder::apply
ShapeletApply(b, output, ellipse) ==
    LET zero == Zeroed(output)
        eh == readEllipse(b.ellipseHelper, b.x, b.y, ellipse)
        sh == b.shapeletHelper
    IN  IF ShapeletHelperDefined(sh, eh, output.rows, output.cols, b.order)
            THEN Done([b EXCEPT !.ellipseHelper = eh,
                                !.shapeletHelper =
                                    ShapeletHelperFill(sh, eh, b.order)],
                      ShapeletHelperApply(sh, eh, zero, b.order))
            ELSE Undefined([b EXCEPT !.ellipseHelper = eh], zero)

\* _convolutionWorkspace.asEigen() * convolutionMatrix.asEigen() : the
\* product has the rows of the workspace and the columns of the matrix, and
\* needs as many workspace columns as the matrix has rows.
ConvolutionProduct(workspace, convolution, ellipse) ==
    Mat(workspace.rows, computeSize(convolution.colOrder),
        LAMBDA i, j :
            VSumSeq([k \in 1..workspace.cols |->
                VTimesCv(workspace.a[<<i, k>>],
                         ConvolutionEntry(convolution, ellipse, k, j))]))

\* The order ConvolvedShapeletMatrixBuilder::apply passes to
\* ShapeletHelper::apply: _convolution.getColOrder().
ConvolvedEvaluationOrder(convolution) == convolution.colOrder

\* ConvolvedShapeletMatrixBuilder::apply
ConvolvedShapeletApply(b, output, ellipse) ==
    LET zero == Zeroed(b.workspace)
        convolution == b.convolution
        convolvedEllipse == ConvolutionEllipse(convolution, ellipse)
        eh == readEllipse(b.ellipseHelper, b.x, b.y, convolvedEllipse)
        sh == b.shapeletHelper
        order == ConvolvedEvaluationOrder(convolution)
        nb == [b EXCEPT !.workspace = zero, !.ellipseHelper = eh]
    IN  IF /\ ShapeletHelperDefined(sh, eh, zero.rows, zero.cols, order)
           /\ zero.cols = computeSize(convolution.rowOrder)
           /\ output.rows = zero.rows
           /\ output.cols = computeSize(convolution.colOrder)
            THEN LET filled == ShapeletHelperApply(sh, eh, zero, order)
                 IN  Done([nb EXCEPT !.workspace = filled,
                                     !.shapeletHelper =
                                         ShapeletHelperFill(sh, eh, order)],
                          ConvolutionProduct(filled, convolution, ellipse))
            ELSE Undefined(nb, output)

\* The first cols columns of m: m[ndarray::view()(0, cols)].
LeftView(m, cols) == Mat(m.rows, cols, LAMBDA i, j : m.a[<<i, j>>])

\* m with its first columns replaced by the view.
WithLeftView(m, view) ==
    Mat(m.rows, m.cols,
        LAMBDA i, j : IF j <= view.cols THEN view.a[<<i, j>>] ELSE m.a[<<i, j>>])

\* The loop of MultiShapeletMatrixBuilder0::apply from component k on; st
\* holds the helpers, the workspace, the output and lastRadius.
RECURSIVE MultiShapeletLoop(_, _, _)
MultiShapeletLoop(b, k, st) ==
    IF k > Len(b.basis.comps) \/ st.err # "none" THEN st
    ELSE
        LET comp == b.basis.comps[k]
            eh == scale(st.eh, RDiv(RInt(comp.radius), st.lastRadius))
            cols == computeSize(comp.order)
        IN  IF /\ cols <= st.ws.cols
               /\ ShapeletHelperDefined(st.sh, eh, st.ws.rows, cols, comp.order)
               /\ st.out.rows = st.ws.rows
               /\ st.out.cols = Len(comp.matrix[1])
               /\ Len(comp.matrix) = cols
                THEN LET view == ShapeletHelperApply(st.sh, eh,
                                     ZeroMat(st.ws.rows, cols), comp.order)
                     IN  MultiShapeletLoop(b, k + 1,
                             [eh |-> eh,
                              sh |-> ShapeletHelperFill(st.sh, eh, comp.order),
                              ws |-> WithLeftView(st.ws, view),
                              out |-> MatAdd(st.out,
                                          MatTimesRat(view, comp.matrix,
                                                      st.out.cols)),
                              lastRadius |-> RInt(comp.radius),
                              err |-> "none"])
                ELSE [st EXCEPT !.eh = eh, !.err = "Undefined"]

\* MultiShapeletMatrixBuilder0::apply
MultiShapeletApply(b, output, ellipse) ==
    LET st == MultiShapeletLoop(b, 1,
                  [eh |-> readEllipse(b.ellipseHelper, b.x, b.y, ellipse),
                   sh |-> b.shapeletHelper,
                   ws |-> b.workspace,
                   out |-> Zeroed(output),
                   lastRadius |-> R1,
                   err |-> "none"])
        nb == [b EXCEPT !.ellipseHelper = st.eh, !.shapeletHelper = st.sh,
                        !.workspace = st.ws]
    IN  IF st.err = "none" THEN Done(nb, st.out) ELSE Undefined(nb, st.out)

\* The ellipse whose grid transform the variant's apply asks for.
TransformedEllipse(b, ellipse) ==
    CASE b.variant = "ConvolvedGaussian" -> Convolve(ellipse, b.psfEllipse)
      [] b.variant = "ConvolvedShapelet" ->
             ConvolutionEllipse(b.convolution, ellipse)
      [] OTHER -> ellipse

\* MatrixBuilder::apply, dispatched on the variant.
BuilderApply(b, output, ellipse) ==
    CASE b.variant = "Gaussian" -> GaussianApply(b, output, ellipse)
      [] b.variant = "ConvolvedGaussian" ->
             ConvolvedGaussianApply(b, output, ellipse)
      [] b.variant = "Shapelet" -> ShapeletApply(b, output, ellipse)
      [] b.variant = "ConvolvedShapelet" ->
             ConvolvedShapeletApply(b, output, ellipse)
      [] b.variant = "MultiShapelet" -> MultiShapeletApply(b, output, ellipse)

\* ------------------------------------------------------------------ inputs

\* The sample sequences the caller passes: x over XVals, y over YVals, each
\* of any length up to MaxData.
XVals == {1, 2}
YVals == {3}

SeqsOver(vals) == UNION {[1..n -> vals] : n \in 0..MaxData}

\* The ellipses the caller passes to apply, and the PSFs.
Ellipses == {Ell(9, 16, 0, 0), Ell(9, 16, 1, 0), Ell(16, 9, 0, 1)}

Psfs ==
    {Psf(0, DeltaEllipse, R1), Psf(0, DeltaEllipse, RInt(2)),
     Psf(0, Ell(16, 9, 0, 0), R1), Psf(1, Ell(9, 16, 0, 0), R1)}

\* The element lists of the MultiShapeletFunction PSFs: none, one, two.
PsfLists ==
    {<<>>} \cup {<<p>> : p \in Psfs}
        \cup {<<Psf(0, DeltaEllipse, R1), Psf(1, Ell(9, 16, 0, 0), R1)>>}

\* The multi-shapelet bases: up to two components of radius 1 or 2 (two
\* components have different radii) and order 0 or 1, each mixed into
\* BasisCols basis functions.
BasisCols == 2

MixMatrix(order, radius) ==
    [k \in 1..computeSize(order) |->
        [j \in 1..BasisCols |-> RInt(k * j + radius - 2)]]

Components ==
    {Component(r, o, MixMatrix(o, r)) : r \in {1, 2}, o \in {0, 1}}

Bases ==
    {Basis(BasisCols, comps) :
        comps \in {c \in UNION {[1..n -> Components] : n \in 0..2} :
                      Len(c) = 2 => c[1].radius # c[2].radius}}

\* ------------------------------------------------------------------- state

VARIABLES
    builder,    \* the builder the caller holds (NoBuilder: none)
    output,     \* the caller's output matrix
    err,        \* how the last operation ended
    last,       \* the last operation: its arguments and what it started from
    loop,       \* one run of the column loop of ShapeletHelper::apply
    conc        \* two apply calls running at the same time

vars == <<builder, output, err, last, loop, conc>>

NoRequest == [order |-> -1, elements |-> <<>>, basis |-> NoBasis]

NoLast ==
    [op |-> "none", ctor |-> "none", x |-> <<>>, y |-> <<>>, steps |-> <<>>,
     req |-> NoRequest, ellipse |-> DeltaEllipse, b |-> NoBuilder,
     out |-> ZeroMat(0, 0)]

\* The column loop of an evaluation of the given order, about to start.
LoopStart(order) ==
    [order |-> order, i |-> PackedFirst, visited |-> <<>>, pc |-> "loop"]

NoLoop == [LoopStart(0) EXCEPT !.pc = "none"]

\* An apply call about to start: its ellipse and the caller's matrix.
CallStart(ellipse, out) ==
    [pc |-> "start", ellipse |-> ellipse, out |-> out, err |-> "none"]

\* Two apply calls about to start on builders constructed as b, on one
\* builder object (shared) or on one each, each call with an output matrix
\* of its own holding out.
ConcStart(shared, b, out, e1, e2) ==
    [shared |-> shared, fresh |-> b, out |-> out, inst |-> <<b, b>>,
     call |-> <<CallStart(e1, out), CallStart(e2, out)>>, halted |-> FALSE]

NoConc ==
    [ConcStart(FALSE, NoBuilder, ZeroMat(0, 0), DeltaEllipse, DeltaEllipse)
        EXCEPT !.call = [c \in 1..2 |-> [@[c] EXCEPT !.pc = "none"]]]

Init ==
    /\ builder = NoBuilder
    /\ output = ZeroMat(0, 0)
    /\ err = "none"
    /\ last = NoLast
    /\ loop = NoLoop
    /\ conc = NoConc

\* The caller, starting with no builder, keeps what a factory call returned.
Install(r, op, x, y, req) ==
    /\ last.op = "none"
    /\ builder' = r.b
    /\ err' = r.err
    /\ output' = ZeroMat(0, 0)
    /\ last' = [NoLast EXCEPT !.op = op, !.ctor = r.ctor, !.x = x, !.y = y,
                              !.steps = r.steps, !.req = req]
    /\ UNCHANGED <<loop, conc>>

MakeOrder ==
    \E x \in SeqsOver(XVals), y \in SeqsOver(YVals), order \in 0..MaxOrder :
        Install(makeMatrixBuilder(x, y, order), "makeOrder", x, y,
                [NoRequest EXCEPT !.order = order])

MakePsf ==
    \E x \in SeqsOver(XVals), y \in SeqsOver(YVals), order \in 0..MaxOrder,
       psf \in Psfs :
        Install(makeMatrixBuilderPsf(x, y, psf, order), "makePsf", x, y,
                [NoRequest EXCEPT !.order = order, !.elements = <<psf>>])

MakeMultiPsf ==
    \E x \in SeqsOver(XVals), y \in SeqsOver(YVals), order \in 0..MaxOrder,
       elements \in PsfLists :
        Install(makeMatrixBuilderMultiPsf(x, y, elements, order),
                "makeMultiPsf", x, y,
                [NoRequest EXCEPT !.order = order, !.elements = elements])

MakeBasis ==
    \E x \in SeqsOver(XVals), y \in SeqsOver(YVals), basis \in Bases :
        Install(makeMatrixBuilderBasis(x, y, basis), "makeBasis", x, y,
                [NoRequest EXCEPT !.basis = basis])

MakePsfBasis ==
    \E x \in SeqsOver(XVals), y \in SeqsOver(YVals), elements \in PsfLists,
       basis \in {c \in Bases : Len(c.comps) = 1} :
        Install(makeMatrixBuilderPsfBasis(x, y, elements, basis),
                "makePsfBasis", x, y,
                [NoRequest EXCEPT !.elements = elements, !.basis = basis])

\* The caller allocates the output matrix: of the builder's dimensions or
\* off by one, holding zeros or other numbers.
AllocOutput ==
    \E d \in {<<0, 0>>, <<1, 0>>, <<0, 1>>, <<0, -1>>}, fill \in {0, 7} :
        /\ builder.variant # "None"
        /\ err # "Undefined"
        /\ builder.basisSize + d[2] >= 0
        /\ output' = ConstMat(getDataSize(builder) + d[1],
                              builder.basisSize + d[2], VNum(RInt(fill)))
        /\ last' = [NoLast EXCEPT !.op = "alloc"]
        /\ UNCHANGED <<builder, err, loop, conc>>

\* builder->apply(output, ellipse)
Apply ==
    \E ellipse \in Ellipses :
        /\ builder.variant # "None"
        /\ err # "Undefined"
        /\ HasGridTransform(TransformedEllipse(builder, ellipse))
        /\ \E o \in BuilderApply(builder, output, ellipse) :
               /\ builder' = o.b
               /\ output' = o.out
               /\ err' = o.err
        /\ last' = [NoLast EXCEPT !.op = "apply", !.ellipse = ellipse,
                                  !.b = builder, !.out = output]
        /\ UNCHANGED <<loop, conc>>

\* The caller destroys the builder and its output matrix, or handles the
\* exception of a factory call.
Release ==
    /\ last.op # "none"
    /\ err # "Undefined"
    /\ builder' = NoBuilder
    /\ output' = ZeroMat(0, 0)
    /\ err' = "none"
    /\ last' = NoLast
    /\ UNCHANGED <<loop, conc>>

\* After undefined behaviour nothing can be said of the process: it is
\* started again.
Restart ==
    /\ err = "Undefined"
    /\ builder' = NoBuilder
    /\ output' = ZeroMat(0, 0)
    /\ err' = "none"
    /\ last' = NoLast
    /\ UNCHANGED <<loop, conc>>

Next ==
    \/ MakeOrder
    \/ MakePsf
    \/ MakeMultiPsf
    \/ MakeBasis
    \/ MakePsfBasis
    \/ AllocOutput
    \/ Apply
    \/ Release
    \/ Restart

Spec == Init /\ [][Next]_vars

\* ---------------------------------------------------------- the column loop

\* Largest order whose column loop is run step by step.
MaxLoopOrder == 8

InitLoop ==
    /\ builder = NoBuilder
    /\ output = ZeroMat(0, 0)
    /\ err = "none"
    /\ last = NoLast
    /\ loop \in {LoopStart(order) : order \in 0..MaxLoopOrder}
    /\ conc = NoConc

\* One iteration of `for (PackedIndex i; i.getOrder() <= order; ++i)`: the
\* body adds into column i.getIndex() the product of the table columns
\* i.getX() and i.getY().
LoopVisit ==
    /\ loop.pc = "loop"
    /\ ShapeletLoopGuard(loop.i, loop.order)
    /\ loop' = [loop EXCEPT !.visited = Append(@, loop.i),
                            !.i = PackedNext(loop.i)]
    /\ UNCHANGED <<builder, output, err, last, conc>>

LoopExit ==
    /\ loop.pc = "loop"
    /\ ~ShapeletLoopGuard(loop.i, loop.order)
    /\ loop' = [loop EXCEPT !.pc = "done"]
    /\ UNCHANGED <<builder, output, err, last, conc>>

NextLoop == LoopVisit \/ LoopExit

SpecLoop == InitLoop /\ [][NextLoop]_vars

\* ------------------------------------------------- two calls at one time

\* Helpers that all builder objects share, as static members would be: C14
\* tells the code from it.
InstanceOfStatic(shared, c) == 1

\* The builder object whose members call c works on: _ellipseHelper and
\* _shapeletHelper are members of the builder the call was made on.
InstanceOf(shared, c) == IF shared THEN 1 ELSE c

\* The ellipses of the two calls: those of Ellipses, whose grid transforms
\* have one determinant, and one of another determinant.
ConcEllipses == Ellipses \cup {Ell(4, 4, 0, 0)}

\* The samples of the builders the two calls run on: m points.
ConcX(m) == [i \in 1..m |-> i]

ConcY(m) == [i \in 1..m |-> 3]

InitConc ==
    /\ builder = NoBuilder
    /\ output = ZeroMat(0, 0)
    /\ err = "none"
    /\ last = NoLast
    /\ loop = NoLoop
    /\ \E shared \in BOOLEAN, m \in 1..MaxData, order \in 0..MaxOrder,
          e1 \in ConcEllipses, e2 \in ConcEllipses :
           LET b == makeMatrixBuilder(ConcX(m), ConcY(m), order).b
           IN  /\ e1 # e2
               /\ conc = ConcStart(shared, b,
                             ConstMat(m, b.basisSize, VNum(RInt(7))), e1, e2)

\* The builder object call c works on, and the objects after the call has
\* changed that one to nb.
Inst(c) == conc.inst[InstanceOf(conc.shared, c)]

WithInst(c, nb) == [conc.inst EXCEPT ![InstanceOf(conc.shared, c)] = nb]

\* Call c is at pc and the process has not ended.
ConcAt(c, pc) == conc.call[c].pc = pc /\ ~conc.halted

\* Call c ends in an ill-formed operation, and the process with it.
ConcFault(c) ==
    \E o \in Undefined(Inst(c), conc.call[c].out) :
        conc' = [conc EXCEPT !.call[c].out = o.out,
                             !.call[c].err = o.err,
                             !.call[c].pc = "done",
                             !.halted = TRUE]

\* output.deep() = 0.0
ConcZero ==
    \E c \in 1..2 :
        /\ ConcAt(c, "start")
        /\ conc' = [conc EXCEPT !.call[c].out = Zeroed(@),
                                !.call[c].pc = "zeroed"]
        /\ UNCHANGED <<builder, output, err, last, loop>>

\* readEllipse: the assignments to xt and yt.
ConcCoords ==
    \E c \in 1..2 :
        LET b == Inst(c)
            r == readEllipse(b.ellipseHelper, b.x, b.y, conc.call[c].ellipse)
        IN  /\ ConcAt(c, "zeroed")
            /\ conc' = [conc EXCEPT
                   !.inst = WithInst(c, [b EXCEPT !.ellipseHelper.xt = r.xt,
                                                  !.ellipseHelper.yt = r.yt]),
                   !.call[c].pc = "coords"]
            /\ UNCHANGED <<builder, output, err, last, loop>>

\* readEllipse: the assignment to detFactor.
ConcDet ==
    \E c \in 1..2 :
        LET b == Inst(c)
            r == readEllipse(b.ellipseHelper, b.x, b.y, conc.call[c].ellipse)
        IN  /\ ConcAt(c, "coords")
            /\ conc' = [conc EXCEPT
                   !.inst = WithInst(c, [b EXCEPT !.ellipseHelper.detFactor =
                                                      r.detFactor]),
                   !.call[c].pc = "det"]
            /\ UNCHANGED <<builder, output, err, last, loop>>

\* ShapeletHelper::apply: _expWorkspace and the two tables are filled from
\* the coordinates and the determinant factor the builder holds.
ConcFill ==
    \E c \in 1..2 :
        LET b == Inst(c)
            out == conc.call[c].out
        IN  /\ ConcAt(c, "det")
            /\ b.variant = "Shapelet"
            /\ IF ShapeletHelperDefined(b.shapeletHelper, b.ellipseHelper,
                                        out.rows, out.cols, b.order)
                   THEN conc' = [conc EXCEPT
                            !.inst = WithInst(c, [b EXCEPT !.shapeletHelper =
                                ShapeletHelperFill(b.shapeletHelper,
                                                   b.ellipseHelper, b.order)]),
                            !.call[c].pc = "filled"]
                   ELSE ConcFault(c)
            /\ UNCHANGED <<builder, output, err, last, loop>>

\* The accumulation into the output: the column loop of
\* ShapeletHelper::apply over the workspaces the builder holds, or
\* GaussianHelper::apply over the coordinates and the determinant factor
\* the builder holds.
ConcAccumulate ==
    \E c \in 1..2 :
        LET b == Inst(c)
            out == conc.call[c].out
        IN  /\ \/ ConcAt(c, "filled") /\ b.variant = "Shapelet"
               \/ ConcAt(c, "det") /\ b.variant = "Gaussian"
            /\ IF b.variant = "Shapelet"
                   THEN conc' = [conc EXCEPT
                            !.call[c].out =
                                ShapeletAccumulate(b.shapeletHelper, out,
                                                   b.order),
                            !.call[c].pc = "done"]
               ELSE IF out.cols >= 1
                           /\ GaussianHelperDefined(b.ellipseHelper, out.rows)
                   THEN conc' = [conc EXCEPT
                            !.call[c].out =
                                WithColumn(out, 1,
                                    GaussianHelperApply(b.ellipseHelper,
                                                        Column(out, 1))),
                            !.call[c].pc = "done"]
               ELSE ConcFault(c)
            /\ UNCHANGED <<builder, output, err, last, loop>>

NextConc ==
    \/ ConcZero
    \/ ConcCoords
    \/ ConcDet
    \/ ConcFill
    \/ ConcAccumulate

SpecConc == InitConc /\ [][NextConc]_vars

\* ------------------------------------------------------------------ claims

\* The output matrix passed to the last apply call had the builder's
\* dimensions: one row per sample, one column per basis element.
OutputFits ==
    /\ last.out.rows = getDataSize(last.b)
    /\ last.out.cols = last.b.basisSize

\* C1: when a constructor has run, sample sequences of different lengths
\* gave a length error, no builder, and no helper or scratch buffer was
\* constructed; sequences of equal length (length 0 too) gave no length
\* error.
C1_LengthMismatchRaises ==
    last.ctor # "none" =>
        /\ Len(last.x) # Len(last.y) =>
               /\ err = "LengthError"
               /\ builder = NoBuilder
               /\ last.steps = <<>>
        /\ Len(last.x) = Len(last.y) =>
               /\ err = "none"
               /\ builder.variant = last.ctor
               /\ last.steps # <<>>

\* A constructor was given two samples of x and one of y.
C1_Witness ==
    /\ last.ctor = "ConvolvedShapelet"
    /\ Len(last.x) = 2
    /\ Len(last.y) = 1
    /\ err = "LengthError"

\* C4: the variant of the builder a factory call returns is decided by the
\* request alone, whatever the samples: Gaussian for order 0 and Shapelet
\* for a nonzero order with no PSF; with a single-element PSF the convolved
\* Gaussian exactly when the requested order and the PSF's order are both 0,
\* and the convolved shapelet for every nonzero order; the multi-shapelet
\* for a basis.  An apply call, whatever its ellipse, leaves the variant as
\* it was.
C4_VariantIsFunctionOfRequest ==
    /\ (last.op = "makeOrder" /\ err = "none") =>
           builder.variant =
               IF last.req.order = 0 THEN "Gaussian" ELSE "Shapelet"
    /\ (last.op = "makePsf" /\ err = "none") =>
           /\ builder.variant = "ConvolvedGaussian"
                  <=> (last.req.order = 0 /\ last.req.elements[1].order = 0)
           /\ last.req.order # 0 => builder.variant = "ConvolvedShapelet"
    /\ (last.op = "makeBasis" /\ err = "none") =>
           builder.variant = "MultiShapelet"
    /\ last.op = "apply" => builder.variant = last.b.variant

\* Order 0 was requested with a PSF of order 1, and the convolved shapelet
\* was built.
C4_Witness ==
    /\ last.op = "makePsf"
    /\ err = "none"
    /\ last.req.order = 0
    /\ last.req.elements[1].order = 1
    /\ builder.variant = "ConvolvedShapelet"

\* C5: a factory call with a multi-element PSF and an order returns what
\* the single-PSF factory returns for the only element when there is
\* exactly one, and otherwise throws the logic error and returns no
\* builder.
C5_MultiPsfSingleElementOnly ==
    last.op = "makeMultiPsf" =>
        IF Len(last.req.elements) = 1
            THEN LET r == makeMatrixBuilderPsf(last.x, last.y,
                                               last.req.elements[1],
                                               last.req.order)
                 IN  /\ builder = r.b
                     /\ err = r.err
                     /\ last.ctor = r.ctor
            ELSE /\ err = "LogicError"
                 /\ builder = NoBuilder
                 /\ last.ctor = "none"

\* The factory was called with a PSF of two elements.
C5_Witness ==
    /\ last.op = "makeMultiPsf"
    /\ Len(last.req.elements) = 2
    /\ Len(last.x) = Len(last.y)
    /\ err = "LogicError"

\* C2: an apply call whose output matrix does not have the builder's
\* dimensions ends with a size-mismatch error.
C2_SizeMismatchRaises ==
    (last.op = "apply" /\ ~OutputFits) => err = "SizeMismatch"

\* C3: the factory given a basis and a PSF of one or more elements returns
\* a convolved multi-shapelet builder whose basis size is the size of the
\* basis.
C3_PsfBasisBuildsConvolvedMultiShapelet ==
    (/\ last.op = "makePsfBasis"
     /\ Len(last.req.elements) >= 1
     /\ Len(last.x) = Len(last.y)) =>
        /\ err = "none"
        /\ builder.variant = "ConvolvedMultiShapelet"
        /\ builder.basisSize = last.req.basis.size

\* The outputs of the outcomes of an apply call, when every outcome is a
\* normal return; no output otherwise.
Outputs(outcomes) ==
    IF \A o \in outcomes : o.err = "none"
        THEN {o.out : o \in outcomes} ELSE {}

\* C6: an apply call on an output matrix of the builder's dimensions
\* returns, and leaves in the matrix what the same call leaves in a matrix
\* of zeros.
C6_OutputIndependentOfPriorContents ==
    (last.op = "apply" /\ OutputFits) =>
        /\ err = "none"
        /\ Outputs(BuilderApply(last.b, Zeroed(last.out), last.ellipse))
               = {output}

\* What C6 says, of the calls that return.
C6_WhenWellFormed ==
    (last.op = "apply" /\ OutputFits /\ err = "none") =>
        Outputs(BuilderApply(last.b, Zeroed(last.out), last.ellipse))
            = {output}

\* The persistent configuration of a builder: everything but its scratch.
Configuration(b) ==
    [variant |-> b.variant, x |-> b.x, y |-> b.y, basisSize |-> b.basisSize,
     order |-> b.order, psfEllipse |-> b.psfEllipse,
     psfCoefficient |-> b.psfCoefficient, convolution |-> b.convolution,
     basis |-> b.basis]

\* A newly constructed builder of the configuration of b.
Fresh(b) ==
    CASE b.variant = "Gaussian" -> GaussianMatrixBuilder(b.x, b.y).b
      [] b.variant = "ConvolvedGaussian" ->
             ConvolvedGaussianMatrixBuilder(b.x, b.y, b.psfEllipse,
                                            b.psfCoefficient).b
      [] b.variant = "Shapelet" -> ShapeletMatrixBuilder(b.x, b.y, b.order).b
      [] b.variant = "ConvolvedShapelet" ->
             ConvolvedShapeletMatrixBuilder(b.x, b.y, b.convolution.psf,
                                            b.convolution.colOrder).b
      [] b.variant = "MultiShapelet" ->
             MultiShapeletMatrixBuilder0(b.x, b.y, b.basis).b

\* C7: an apply call on an output matrix of the builder's dimensions
\* returns, leaves the builder's configuration as it was, and leaves in the
\* matrix what a newly constructed builder of the same configuration leaves
\* there for the same ellipse, whatever calls the builder served before.
C7_ApplyLeavesBuilderAsNew ==
    (last.op = "apply" /\ OutputFits) =>
        /\ err = "none"
        /\ Configuration(builder) = Configuration(last.b)
        /\ Outputs(BuilderApply(Fresh(last.b), last.out, last.ellipse))
               = {output}

\* What C7 says, of the calls that return.
C7_WhenWellFormed ==
    (last.op = "apply" /\ OutputFits /\ err = "none") =>
        /\ Configuration(builder) = Configuration(last.b)
        /\ Outputs(BuilderApply(Fresh(last.b), last.out, last.ellipse))
               = {output}

\* The builder of component k of the basis of b alone.
SingleComponent(b, k) ==
    MultiShapeletMatrixBuilder0(b.x, b.y,
        Basis(b.basis.size, <<b.basis.comps[k]>>)).b

\* The sums of an output of the first and an output of the second
\* single-component builder of b, when all their outcomes are normal
\* returns.
SingleComponentSums(b, out, ellipse) ==
    {MatAdd(p, q) :
        p \in Outputs(BuilderApply(SingleComponent(b, 1), out, ellipse)),
        q \in Outputs(BuilderApply(SingleComponent(b, 2), out, ellipse))}

\* C8: an apply call of a multi-shapelet builder of two components on an
\* output matrix of its dimensions returns, and leaves in the matrix the sum
\* of what the builders of each component alone leave there.
C8_TwoComponentsAdd ==
    (/\ last.op = "apply"
     /\ last.b.variant = "MultiShapelet"
     /\ Len(last.b.basis.comps) = 2
     /\ OutputFits) =>
        /\ err = "none"
        /\ SingleComponentSums(last.b, last.out, last.ellipse) = {output}

\* What C8 says, of the calls that return from all three builders.
C8_WhenWellFormed ==
    (/\ last.op = "apply"
     /\ last.b.variant = "MultiShapelet"
     /\ Len(last.b.basis.comps) = 2
     /\ OutputFits
     /\ err = "none"
     /\ SingleComponentSums(last.b, last.out, last.ellipse) # {}) =>
        SingleComponentSums(last.b, last.out, last.ellipse) = {output}

\* The last call was an apply of a convolved Gaussian builder of PSF
\* coefficient 1 and delta PSF ellipse, on an output matrix of its
\* dimensions.
DegeneratePsfApplied ==
    /\ last.op = "apply"
    /\ last.b.variant = "ConvolvedGaussian"
    /\ last.b.psfCoefficient = R1
    /\ last.b.psfEllipse = DeltaEllipse
    /\ Convolve(last.ellipse, last.b.psfEllipse) = last.ellipse
    /\ OutputFits

\* What the plain Gaussian builder of the samples of the last call leaves in
\* the output matrix for the ellipse of the last call.
PlainGaussianOutputs ==
    Outputs(BuilderApply(GaussianMatrixBuilder(last.b.x, last.b.y).b,
                         last.out, last.ellipse))

\* C9 as stated: the convolved Gaussian builder of PSF coefficient 1 and
\* delta PSF ellipse leaves in the output matrix what the plain Gaussian
\* builder leaves there.
C9_SameAsPlainGaussian ==
    DegeneratePsfApplied =>
        /\ err = "none"
        /\ PlainGaussianOutputs = {output}

\* C9: the convolved Gaussian builder of PSF coefficient 1 and delta PSF
\* ellipse leaves in the output matrix what the plain Gaussian builder
\* leaves there, every entry divided by FLUX_FACTOR.
C9_PlainGaussianOverFluxFactor ==
    DegeneratePsfApplied =>
        /\ err = "none"
        /\ {Mat(g.rows, g.cols, LAMBDA i, j : VOverFlux(g.a[<<i, j>>])) :
               g \in PlainGaussianOutputs} = {output}

\* The degenerate convolved Gaussian builder was applied to two samples.
C9_Witness ==
    /\ DegeneratePsfApplied
    /\ output.rows = 2
    /\ err = "none"
    /\ output # Zeroed(output)

\* The pairs (xDegree, yDegree) the column loop visited, and the columns it
\* accumulated into.
VisitedPairs == {<<loop.visited[k].x, loop.visited[k].y>> :
                    k \in 1..Len(loop.visited)}

\* C10: the column loop accumulates into the columns 0, 1, 2, ... in turn,
\* each for a pair (xDegree, yDegree) of total order the order of the
\* index, never less than that of the pair before and never the same pair
\* twice; when it has ended for order n the pairs visited are all those
\* with xDegree + yDegree <= n, one column each, and their number is
\* (n+1)(n+2)/2 and the basis size of the builder the factory returns for
\* order n.
C10_ColumnLoopIsBijection ==
    /\ \A k \in 1..Len(loop.visited) :
           /\ loop.visited[k].i = k - 1
           /\ loop.visited[k].x >= 0
           /\ loop.visited[k].y >= 0
           /\ loop.visited[k].x + loop.visited[k].y = loop.visited[k].n
           /\ loop.visited[k].n <= loop.order
           /\ k > 1 => loop.visited[k - 1].n <= loop.visited[k].n
    /\ Cardinality(VisitedPairs) = Len(loop.visited)
    /\ loop.pc = "done" =>
           /\ VisitedPairs = {p \in (0..loop.order) \X (0..loop.order) :
                                 p[1] + p[2] <= loop.order}
           /\ 2 * Len(loop.visited) = (loop.order + 1) * (loop.order + 2)
           /\ Len(loop.visited)
                  = makeMatrixBuilder(<<>>, <<>>, loop.order).b.basisSize

\* The column loop has ended for order 3, with ten columns visited.
C10_Witness ==
    /\ loop.pc = "done"
    /\ loop.order = 3
    /\ Len(loop.visited) = 10

\* The columns (from 0) of its target the shapelet evaluator adds into in an
\* evaluation of the given order.
FilledColumns(order) ==
    LET visited == ShapeletLoop(PackedFirst, order)
    IN  {visited[k].i : k \in 1..Len(visited)}

\* C11: an apply call of a convolved shapelet builder evaluates the plain
\* shapelet basis at the row order of its convolution: the scratch columns
\* the evaluator fills are all the computeSize(rowOrder) columns that meet
\* a row of the convolution matrix.
C11_EvaluatesAtRowOrder ==
    (last.op = "apply" /\ last.b.variant = "ConvolvedShapelet") =>
        FilledColumns(ConvolvedEvaluationOrder(last.b.convolution))
            = 0..(computeSize(last.b.convolution.rowOrder) - 1)

\* What C11 says, of the convolutions whose row order is their column order
\* (a PSF of order 0).
C11_WhenPsfOrderZero ==
    (/\ last.op = "apply"
     /\ last.b.variant = "ConvolvedShapelet"
     /\ last.b.convolution.psf.order = 0) =>
        FilledColumns(ConvolvedEvaluationOrder(last.b.convolution))
            = 0..(computeSize(last.b.convolution.rowOrder) - 1)

\* The scratch of a convolved shapelet builder b holds the view its apply
\* fills and multiplies: one row per sample and computeSize(rowOrder)
\* columns, the rows of the convolution matrix.
ConvolvedScratchFits(b) ==
    /\ b.workspace.rows = getDataSize(b)
    /\ computeSize(b.convolution.rowOrder) <= b.workspace.cols
    /\ b.workspace.cols = computeSize(b.convolution.rowOrder)

\* The scratch of a multi-shapelet builder b holds the view of every
\* component: one row per sample and the computeSize(order) columns that
\* meet the rows of the component's matrix.
MultiScratchFits(b) ==
    /\ b.workspace.rows = getDataSize(b)
    /\ \A k \in 1..Len(b.basis.comps) :
           /\ computeSize(b.basis.comps[k].order) <= b.workspace.cols
           /\ computeSize(b.basis.comps[k].order)
                  = Len(b.basis.comps[k].matrix)

\* The scratch of a convolved multi-shapelet builder b holds the view of
\* every component: getRowSize() columns of the basis workspace and
\* getRowSize() rows of the convolution workspace, which has a column for
\* every basis function.
ConvolvedMultiScratchFits(b) ==
    /\ b.workspace.rows = getDataSize(b)
    /\ \A k \in 1..Len(b.components) :
           /\ getRowSize(b.components[k]) <= b.workspace.cols
           /\ getRowSize(b.components[k]) <= b.convolutionWorkspace.rows
           /\ b.basisSize <= b.convolutionWorkspace.cols

\* C12: the scratch a constructor allocates holds every view an apply call
\* takes of it, with the inner dimension of the product, and an apply call
\* leaves its dimensions as they were; of the convolved multi-shapelet
\* class, which no factory constructs, this is said of the builder its
\* constructor makes of the arguments of the factory call.
C12_ScratchHoldsEveryView ==
    /\ builder.variant = "ConvolvedShapelet" => ConvolvedScratchFits(builder)
    /\ builder.variant = "MultiShapelet" => MultiScratchFits(builder)
    /\ (last.op = "makePsfBasis" /\ Len(last.x) = Len(last.y)) =>
           ConvolvedMultiScratchFits(
               ConvolvedMultiShapeletMatrixBuilder(
                   last.x, last.y, last.req.elements, last.req.basis).b)
    /\ last.op = "apply" =>
           /\ builder.workspace.rows = last.b.workspace.rows
           /\ builder.workspace.cols = last.b.workspace.cols

\* What C12 says, of the multi-shapelet builder and of the dimensions an
\* apply call leaves.
C12_WhenMultiShapelet ==
    /\ builder.variant = "MultiShapelet" => MultiScratchFits(builder)
    /\ last.op = "apply" =>
           /\ builder.workspace.rows = last.b.workspace.rows
           /\ builder.workspace.cols = last.b.workspace.cols

\* C12, of the convolved shapelet builder alone.
C12_ConvolvedShapeletOnly ==
    builder.variant = "ConvolvedShapelet" => ConvolvedScratchFits(builder)

\* C12, of the convolved multi-shapelet constructor alone.
C12_ConvolvedMultiOnly ==
    (last.op = "makePsfBasis" /\ Len(last.x) = Len(last.y)) =>
        ConvolvedMultiScratchFits(
            ConvolvedMultiShapeletMatrixBuilder(
                last.x, last.y, last.req.elements, last.req.basis).b)

\* The last call was an apply of a plain shapelet builder of one or more
\* samples on an output matrix of its dimensions.
ShapeletApplied ==
    /\ last.op = "apply"
    /\ last.b.variant = "Shapelet"
    /\ getDataSize(last.b) >= 1
    /\ OutputFits

\* The table holds, for every degree up to the order and every sample, the
\* entry of that degree at the sample's coordinate, and its entries of
\* higher degrees are those of the table before.
TableWritten(table, before, coord, order) ==
    /\ \A j \in 0..order :
           /\ j \in DOMAIN table
           /\ Len(table[j]) = Len(coord)
           /\ \A s \in 1..Len(coord) : table[j][s] = HVal(j, coord[s])
    /\ \A j \in DOMAIN table : j > order => table[j] = before[j]

\* C13: an apply call of a shapelet builder of order n over m >= 1 samples
\* returns, every operation on its tables within them, and leaves in each
\* table, for the degrees 0..n and all m samples, the entries of this call's
\* coordinates, and no other entry changed.
C13_TablesWrittenInBounds ==
    ShapeletApplied =>
        /\ err = "none"
        /\ TableWritten(builder.shapeletHelper.xWorkspace,
                        last.b.shapeletHelper.xWorkspace,
                        builder.ellipseHelper.xt, last.b.order)
        /\ TableWritten(builder.shapeletHelper.yWorkspace,
                        last.b.shapeletHelper.yWorkspace,
                        builder.ellipseHelper.yt, last.b.order)

\* What C13 says, of the calls that return.
C13_WhenWellFormed ==
    (ShapeletApplied /\ err = "none") =>
        /\ TableWritten(builder.shapeletHelper.xWorkspace,
                        last.b.shapeletHelper.xWorkspace,
                        builder.ellipseHelper.xt, last.b.order)
        /\ TableWritten(builder.shapeletHelper.yWorkspace,
                        last.b.shapeletHelper.yWorkspace,
                        builder.ellipseHelper.yt, last.b.order)

\* The results (output matrix and how the call ended) an apply call for the
\* ellipse has alone, on a builder and an output matrix as the two calls
\* started from.
AloneResults(ellipse) ==
    {<<o.out, o.err>> : o \in BuilderApply(conc.fresh, conc.out, ellipse)}

\* C14: of two apply calls with different ellipses that run at the same
\* time on two builder objects, each ends, however their steps interleave,
\* with a result it has alone.  (That on one builder object some
\* interleaving gives a call a result computed from the other call's
\* coordinates and determinant factor is C14_Witness.)
C14_DistinctInstancesIsolated ==
    \A c \in 1..2 :
        (~conc.shared /\ conc.call[c].pc = "done") =>
            <<conc.call[c].out, conc.call[c].err>>
                \in AloneResults(conc.call[c].ellipse)

\* Both calls ran on one shapelet builder of two samples and returned, and
\* the first has the output that the second call's ellipse gives alone and
\* not the output of its own ellipse.
C14_Witness ==
    /\ conc.shared
    /\ conc.fresh.variant = "Shapelet"
    /\ \A c \in 1..2 : conc.call[c].pc = "done" /\ conc.call[c].err = "none"
    /\ <<conc.call[1].out, "none">> \in AloneResults(conc.call[2].ellipse)
    /\ <<conc.call[1].out, "none">> \notin AloneResults(conc.call[1].ellipse)

=============================================================================
